---- MODULE Spec2Model ----
(***************************************************************************)
(* Model of the container visibility-grouping system of Aloha-Editor       *)
(* (src/plugins/common/ui/lib/container.js): the showGroups hash, the      *)
(* Container constructor with addToShowGroup, Container.render, and        *)
(* Container.showContainersForElements; and of the panels of the sidebar   *)
(* (src/core/sidebar.js): Sidebar.expandPanel, Sidebar.collapsePanel,      *)
(* Panel.expand, Panel.collapse, Panel.toggle and the completion of the    *)
(* height animation they start.                                            *)
(***************************************************************************)
EXTENDS Integers, Sequences, FiniteSets, TLC

VARIABLES
    showGroups,   \* the showGroups hash, as its entries in for-in (insertion) order
    containers,   \* the Container instances whose construction completed, by identity
    closures,     \* number of predicate closures coerceShowOnToPredicate has created
    held,         \* the array the caller holds and may pass again
    last,         \* the last call made on the module and what it did
    panels,       \* Sidebar.panels: the Panel objects by id
    fx,           \* the height animation on each panel's content element
    latest,       \* the latest expand or collapse started on each panel
    invoked,      \* the callback invocations made so far
    started       \* number of sidebar calls made so far

containerVars == <<showGroups, containers, closures, held, last>>
sidebarVars == <<panels, fx, latest, invoked, started>>
vars == <<showGroups, containers, closures, held, last,
          panels, fx, latest, invoked, started>>

----------------------------------------------------------------------------
(* Bounds *)

MaxContainers == 2      \* containers constructed
MaxLen == 3             \* length of the elements array after the sentinel was pushed
MaxRequests == 3        \* calls made on the sidebar and its panels

----------------------------------------------------------------------------
(* JavaScript values used as showOn, and DOM element handles *)

NoElement == "null"                 \* the null pushed onto the elements array
ElementHandles == {"div", "img"}    \* DOM elements, by node name

Val(t, b, s, n, id, beh) ==
    [type |-> t, b |-> b, s |-> s, n |-> n, id |-> id, beh |-> beh]

Undefined == Val("undefined", FALSE, "", 0, 0, "")
Null      == Val("null", FALSE, "", 0, 0, "")
Bool(x)   == Val("boolean", x, "", 0, 0, "")
Str(x)    == Val("string", FALSE, x, 0, 0, "")
Num(k)    == Val("number", FALSE, "", k, 0, "")
\* a function object: its identity, its source text and the `target` it captured
Fn(id, src, beh) == Val("function", FALSE, src, 0, id, beh)

\* two closures made by the same factory: the same source text, different
\* captured `target` (null, and the img element)
IsTargetSrc == "function(el){return el===target;}"

FnIsNull == Fn(101, IsTargetSrc, NoElement)
FnIsImg  == Fn(102, IsTargetSrc, "img")

\* a predicate with a side effect: every call of it constructs and renders a
\* container whose showOn is this very function, and returns false
RegistersSrc == "function reg(el){new Container({showOn:reg}).render();return false;}"

FnRegisters == Fn(103, RegistersSrc, "registers")

ShowOnValues ==
    { Undefined, Null, Bool(TRUE), Bool(FALSE), Str("img"), Num(1),
      FnIsNull, FnIsImg }

\* jQuery.type( v )
jQueryType(v) == v.type

Digits == <<"0", "1", "2", "3", "4", "5", "6", "7", "8", "9">>

RECURSIVE NumberToString(_)
NumberToString(n) ==
    IF n < 10 THEN Digits[n + 1]
    ELSE NumberToString(n \div 10) \o Digits[(n % 10) + 1]

\* v.toString() raises a TypeError when v is undefined or null
ToStringThrows(v) == jQueryType(v) \in {"undefined", "null"}

\* v.toString() for the other values
toString(v) ==
    CASE jQueryType(v) = "boolean"  -> IF v.b THEN "true" ELSE "false"
      [] jQueryType(v) = "string"   -> v.s
      [] jQueryType(v) = "number"   -> NumberToString(v.n)
      [] jQueryType(v) = "function" -> v.s
      [] OTHER                      -> "[object Object]"

\* jQuery( el ).is( selector ) for the tag selectors used here
jQueryIs(el, selector) == el = selector

----------------------------------------------------------------------------
(* Predicates: function objects with an identity *)

Pred(id, kind, b, s) == [id |-> id, kind |-> kind, b |-> b, s |-> s]

\* the value a predicate returns for an element of the elements array
Apply(p, el) ==
    CASE p.kind = "function"  -> IF p.s = "registers" THEN FALSE ELSE el = p.s
      [] p.kind = "boolean"   -> p.b
      [] p.kind = "string"    ->
            IF el # NoElement THEN jQueryIs(el, p.s) ELSE FALSE
      [] p.kind = "undefined" -> TRUE
      [] OTHER                -> FALSE

\* generateKeyForShowOnValue( showOn ); threw = the TypeError of showOn.toString()
generateKeyForShowOnValue(showOn) ==
    IF ToStringThrows(showOn)
    THEN [threw |-> TRUE, key |-> ""]
    ELSE [threw |-> FALSE, key |-> jQueryType(showOn) \o ":" \o toString(showOn)]

\* coerceShowOnToPredicate( showOn ); fresh is the identity of a closure it creates
coerceShowOnToPredicate(showOn, fresh) ==
    CASE jQueryType(showOn) = "function"  -> Pred(showOn.id, "function", FALSE, showOn.beh)
      [] jQueryType(showOn) = "boolean"   -> Pred(fresh, "boolean", showOn.b, "")
      [] jQueryType(showOn) = "string"    -> Pred(fresh, "string", FALSE, showOn.s)
      [] jQueryType(showOn) = "undefined" -> Pred(fresh, "undefined", FALSE, "")
      [] OTHER                            -> Pred(fresh, "default", FALSE, "")

\* whether coerceShowOnToPredicate allocates a new closure for showOn
CreatesClosure(showOn) == jQueryType(showOn) # "function"

----------------------------------------------------------------------------
(* The showGroups hash *)

Keys(groups) == { groups[i].key : i \in 1..Len(groups) }

\* showGroups[ key ]: the position of the entry, 0 when there is none
Lookup(groups, key) ==
    IF key \in Keys(groups)
    THEN CHOOSE i \in 1..Len(groups) : groups[i].key = key
    ELSE 0

\* addToShowGroup without the lookup: every container opens an entry of its own
PlaceInGroupAlwaysNew(groups, key, c, showOn, fresh) ==
    Append(groups, [key        |-> key,
                    shouldShow |-> coerceShowOnToPredicate(showOn, fresh),
                    containers |-> <<c>>])

\* addToShowGroup with unshift instead of push
PlaceInGroupUnshift(groups, key, c, showOn, fresh) ==
    LET g == Lookup(groups, key) IN
    IF g # 0
    THEN [groups EXCEPT ![g].containers = <<c>> \o @]
    ELSE Append(groups, [key        |-> key,
                         shouldShow |-> coerceShowOnToPredicate(showOn, fresh),
                         containers |-> <<c>>])

\* addToShowGroup, lines 50-57: the hash after container c was placed
PlaceInGroup(groups, key, c, showOn, fresh) ==
    LET g == Lookup(groups, key) IN
    IF g # 0
    THEN [groups EXCEPT ![g].containers = Append(@, c)]
    ELSE Append(groups, [key        |-> key,
                         shouldShow |-> coerceShowOnToPredicate(showOn, fresh),
                         containers |-> <<c>>])

\* addToShowGroup coercing the container's own showOn again
AssignedShouldShowRecomputed(groups, key, showOn, fresh) ==
    coerceShowOnToPredicate(showOn, fresh)

\* addToShowGroup, line 59: the predicate the container is given
AssignedShouldShow(groups, key, showOn, fresh) ==
    groups[Lookup(groups, key)].shouldShow

NoVal == Val("none", FALSE, "", 0, 0, "")

Record(op, outcome, showOn, key, ref, entry, elements, tests, calls, again) ==
    [op |-> op, outcome |-> outcome, showOn |-> showOn, key |-> key, ref |-> ref,
     entry |-> entry, elements |-> elements, tests |-> tests, calls |-> calls,
     again |-> again]

\* the panels the document-ready handler passes to new Sidebar( opts )
PanelIds == { "t1", "t2" }

\* no animation runs on a content element
NoFx == [running |-> FALSE, callback |-> NoVal, ticket |-> 0]

\* no expand or collapse was started on a panel
NoRequest == [ticket |-> 0, op |-> "none", api |-> FALSE, callback |-> NoVal]

\* new Sidebar( { panels: [ {id: 't1', expanded: true}, {id: 't2', expanded: true} ] } ):
\* addPanel makes a Panel of each and $.extend copies expanded onto it
SidebarConstructed ==
    /\ panels = [p \in PanelIds |-> [expanded |-> TRUE]]
    /\ fx = [p \in PanelIds |-> NoFx]
    /\ latest = [p \in PanelIds |-> NoRequest]
    /\ invoked = {}
    /\ started = 0

Init ==
    /\ showGroups = <<>>
    /\ containers = <<>>
    /\ closures = 0
    /\ held = <<>>
    /\ last = Record("none", "ok", NoVal, "", "none", <<>>, <<>>, <<>>, <<>>, FALSE)
    /\ SidebarConstructed

\* new Container( { showOn: showOn } ): _constructor and addToShowGroup
Construct(showOn) ==
    /\ Len(containers) < MaxContainers
    /\ LET k == generateKeyForShowOnValue(showOn)
           c == Len(containers) + 1
           fresh == closures + 1
       IN
       IF k.threw
       THEN /\ UNCHANGED <<showGroups, containers, closures>>
            /\ last' = Record("construct", "TypeError", showOn, "", "none",
                              <<>>, <<>>, <<>>, <<>>, FALSE)
       ELSE LET groups == PlaceInGroup(showGroups, k.key, c, showOn, fresh) IN
            /\ showGroups' = groups
            /\ containers' = Append(containers,
                   [showOn     |-> showOn,
                    shouldShow |-> AssignedShouldShow(groups, k.key, showOn, fresh),
                    visible    |-> TRUE,
                    element    |-> NoElement,
                    discarded  |-> FALSE])
            /\ closures' = IF k.key \notin Keys(showGroups) /\ CreatesClosure(showOn)
                           THEN fresh ELSE closures
            /\ last' = Record("construct", "ok", showOn, k.key, "none",
                              <<>>, <<>>, <<>>, <<>>, FALSE)
    /\ UNCHANGED held
    /\ UNCHANGED sidebarVars

\* container.render()
Render(c) ==
    /\ c \in 1..Len(containers)
    /\ containers' = [containers EXCEPT ![c].element = "div"]
    /\ last' = Record("render", "ok", NoVal, "", "none", <<>>, <<>>, <<>>, <<>>, FALSE)
    /\ UNCHANGED <<showGroups, closures, held>>
    /\ UNCHANGED sidebarVars

----------------------------------------------------------------------------
(* Container.show / Container.hide and toggleContainers *)

\* the result of a step that may raise: the containers after it, whether it
\* raised, the show()/hide() calls made and the predicate tests per group
Outcome(cs, threw, calls, tests) ==
    [cs |-> cs, threw |-> threw, calls |-> calls, tests |-> tests]

\* show() without `this.visible = true`
showWithoutFlag(cs, c) ==
    [cs |-> cs, threw |-> cs[c].element = NoElement]

\* container.show(): this.element.show() raises a TypeError while element is null
show(cs, c) ==
    IF cs[c].element = NoElement
    THEN [cs |-> cs, threw |-> TRUE]
    ELSE [cs |-> [cs EXCEPT ![c].visible = TRUE], threw |-> FALSE]

\* container.hide()
hide(cs, c) ==
    IF cs[c].element = NoElement
    THEN [cs |-> cs, threw |-> TRUE]
    ELSE [cs |-> [cs EXCEPT ![c].visible = FALSE], threw |-> FALSE]

\* the loop of toggleContainers: containers[ --j ][ action ]() while j
RECURSIVE ToggleLoop(_, _, _, _)
ToggleLoop(cs, members, j, action) ==
    IF j = 0 THEN Outcome(cs, FALSE, <<>>, <<>>)
    ELSE LET c == members[j]
             r == IF action = "show" THEN show(cs, c) ELSE hide(cs, c)
             call == [container |-> c, action |-> action]
         IN  IF r.threw THEN Outcome(r.cs, TRUE, <<call>>, <<>>)
             ELSE LET rest == ToggleLoop(r.cs, members, j - 1, action)
                  IN  Outcome(rest.cs, rest.threw, <<call>> \o rest.calls, <<>>)

\* toggleContainers( containers, action )
toggleContainers(cs, members, action) ==
    IF action # "show" /\ action # "hide"
    THEN Outcome(cs, FALSE, <<>>, <<>>)
    ELSE ToggleLoop(cs, members, Len(members), action)

----------------------------------------------------------------------------
(* Container.showContainersForElements *)

\* lines 214-218: the array the tests walk over; an array argument gets the
\* null pushed onto it, anything else is replaced by [ null ]
PushNull(isArray, elements) ==
    IF isArray THEN Append(elements, NoElement) ELSE <<NoElement>>

\* the length taken before the null was pushed
WalkStartStale(elements) == Len(elements) - 1

\* line 234: j = elements.length
WalkStart(elements) == Len(elements)

\* the walk with `while ( --j )`: elements[ 0 ] is never tested
RECURSIVE WalkSkipsFirst(_, _, _)
WalkSkipsFirst(shouldShow, elements, j) ==
    IF j <= 1 THEN [show |-> FALSE, n |-> 0, tested |-> <<>>]
    ELSE IF Apply(shouldShow, elements[j])
         THEN [show |-> TRUE, n |-> 1, tested |-> <<j>>]
         ELSE LET r == WalkSkipsFirst(shouldShow, elements, j - 1)
              IN  [show |-> r.show, n |-> r.n + 1, tested |-> <<j>> \o r.tested]

\* the walk without `break`: every element is tested
RECURSIVE WalkWithoutBreak(_, _, _)
WalkWithoutBreak(shouldShow, elements, j) ==
    IF j = 0 THEN [show |-> FALSE, n |-> 0, tested |-> <<>>]
    ELSE LET r == WalkWithoutBreak(shouldShow, elements, j - 1)
         IN  [show |-> Apply(shouldShow, elements[j]) \/ r.show,
              n |-> r.n + 1, tested |-> <<j>> \o r.tested]

\* lines 235-244: test elements[ j - 1 ] downwards, stop at the first true;
\* n counts the calls of shouldShow
RECURSIVE Walk(_, _, _)
Walk(shouldShow, elements, j) ==
    IF j = 0 THEN [show |-> FALSE, n |-> 0, tested |-> <<>>]
    ELSE IF Apply(shouldShow, elements[j])
         THEN [show |-> TRUE, n |-> 1, tested |-> <<j>>]
         ELSE LET r == Walk(shouldShow, elements, j - 1)
              IN  [show |-> r.show, n |-> r.n + 1, tested |-> <<j>> \o r.tested]

\* one walk for each container of the group instead of one for the group
GroupTestsPerContainer(group, elements) ==
    LET w == Walk(group.shouldShow, elements, WalkStart(elements))
    IN  [show |-> w.show, n |-> w.n * Len(group.containers), tested |-> w.tested]

\* the shouldShow calls made for one group
GroupTests(group, elements) ==
    Walk(group.shouldShow, elements, WalkStart(elements))

\* line 246: the action chosen for the group
ActionFor(shown) == IF shown THEN "show" ELSE "hide"

\* an outcome together with the showGroups hash it leaves
WithGroups(o, groups) ==
    [cs |-> o.cs, threw |-> o.threw, calls |-> o.calls, tests |-> o.tests,
     groups |-> groups]

\* line 240, shouldShow( elements[ --j ] ) when shouldShow has a side effect:
\* the n calls made for entry g each ran the constructor (addToShowGroup,
\* which finds the function's own entry g) and render()
CallbackEffect(cs, groups, g, n) ==
    IF groups[g].shouldShow.kind = "function" /\ groups[g].shouldShow.s = "registers"
    THEN [cs     |-> cs \o [i \in 1..n |->
                        [showOn     |-> FnRegisters,
                         shouldShow |-> groups[g].shouldShow,
                         visible    |-> TRUE,
                         element    |-> "div",
                         discarded  |-> FALSE]],
          groups |-> [groups EXCEPT ![g].containers =
                        @ \o [i \in 1..n |-> Len(cs) + i]]]
    ELSE [cs |-> cs, groups |-> groups]

\* lines 226-247: the for-in loop over showGroups, from entry g on
RECURSIVE GroupLoop(_, _, _, _)
GroupLoop(cs, groups, g, elements) ==
    IF g > Len(groups) THEN WithGroups(Outcome(cs, FALSE, <<>>, <<>>), groups)
    ELSE LET w == GroupTests(groups[g], elements)
             e == CallbackEffect(cs, groups, g, w.n)
             t == toggleContainers(e.cs, e.groups[g].containers, ActionFor(w.show))
             test == [key |-> groups[g].key, n |-> w.n, tested |-> w.tested,
                      show |-> w.show]
         IN  IF t.threw
             THEN WithGroups(Outcome(t.cs, TRUE, t.calls, <<test>>), e.groups)
             ELSE LET rest == GroupLoop(t.cs, e.groups, g + 1, elements)
                  IN  WithGroups(Outcome(rest.cs, rest.threw, t.calls \o rest.calls,
                                         <<test>> \o rest.tests), rest.groups)

\* whether this call directly follows a call that was given the same elements
\* sequence: the same array again, an equal new one, or nothing both times
SameSequenceAgain(ref, entry) ==
    /\ last.op = "evaluate"
    /\ \/ ref = "held" /\ last.ref \in {"fresh", "held"}
       \/ ref = "fresh" /\ last.ref \in {"fresh", "held"} /\ entry = last.entry
       \/ ref = "absent" /\ last.ref = "absent"

\* Container.showContainersForElements( elements ); ref says what the caller
\* passes: nothing, a new array, or the array it passed before
Evaluate(ref, entry) ==
    /\ Len(entry) < MaxLen
    /\ LET elements == PushNull(ref # "absent", entry)
           r == GroupLoop(containers, showGroups, 1, elements)
       IN
       /\ Len(r.cs) <= MaxContainers
       /\ containers' = r.cs
       /\ showGroups' = r.groups
       /\ held' = IF ref = "absent" THEN held ELSE elements
       /\ last' = Record("evaluate", IF r.threw THEN "TypeError" ELSE "ok",
                         NoVal, "", ref, entry, elements, r.tests, r.calls,
                         SameSequenceAgain(ref, entry))
    /\ UNCHANGED closures
    /\ UNCHANGED sidebarVars

\* the arrays of DOM elements a caller builds
FreshArrays == { <<>>, <<"div">>, <<"img", "div">> }

\* the calls made on the module, other than the constructor
Calls ==
    \/ \E c \in 1..MaxContainers : Render(c)
    \/ Evaluate("absent", <<>>)
    \/ \E a \in FreshArrays : Evaluate("fresh", a)
    \/ Evaluate("held", held)

Next ==
    \/ \E showOn \in ShowOnValues : Construct(showOn)
    \/ Calls

Spec == Init /\ [][Next]_vars

\* the owner of the rendered container c tears its UI surface down; the module
\* has no operation that takes a container out of showGroups, so the hash stays
Discard(c) ==
    /\ c \in 1..Len(containers)
    /\ containers[c].element # NoElement
    /\ ~containers[c].discarded
    /\ containers' = [containers EXCEPT ![c].discarded = TRUE]
    /\ last' = Record("discard", "ok", NoVal, "", "none", <<>>, <<>>, <<>>, <<>>, FALSE)
    /\ UNCHANGED <<showGroups, closures, held>>
    /\ UNCHANGED sidebarVars

TeardownValues == { Bool(TRUE), Str("img") }

NextTeardown ==
    \/ \E showOn \in TeardownValues : Construct(showOn)
    \/ Calls
    \/ \E c \in 1..MaxContainers : Discard(c)

\* containers are constructed, rendered, evaluated and torn down
SpecTeardown == Init /\ [][NextTeardown]_vars

CallbackValues == { Bool(FALSE), FnRegisters }

NextCallback ==
    \/ \E showOn \in CallbackValues : Construct(showOn)
    \/ Calls

\* one of the show conditions is a function that registers a container
SpecCallback == Init /\ [][NextCallback]_vars

----------------------------------------------------------------------------
(* Properties *)

Range(seq) == { seq[i] : i \in 1..Len(seq) }

Ids == 1..Len(containers)

\* the entries of showGroups that list container c
GroupsOf(c) == { g \in 1..Len(showGroups) : c \in Range(showGroups[g].containers) }

\* the predicate of the group of container c
GroupPredicate(c) == showGroups[CHOOSE g \in GroupsOf(c) : TRUE].shouldShow

KeyOf(showOn) == generateKeyForShowOnValue(showOn).key

RECURSIVE TotalTests(_)
TotalTests(tests) ==
    IF tests = <<>> THEN 0 ELSE Head(tests).n + TotalTests(Tail(tests))

Sentinels(elements) ==
    Cardinality({ i \in 1..Len(elements) : elements[i] = NoElement })

\* C1: after a completed showContainersForElements( elements ), a container is
\* visible exactly when the predicate of its group is true of some member of
\* elements or of the null sentinel
C1_VisibleIffSomeElementPasses ==
    (last.op = "evaluate" /\ last.outcome = "ok") =>
        \A c \in Ids :
            containers[c].visible =
                (\E e \in Range(last.entry) \cup {NoElement} :
                    Apply(GroupPredicate(c), e))

\* C1 (case): two containers registered with function(el){return el===null;}
\* are both shown by the evaluation of a new empty array
C1_Witness ==
    /\ last.op = "evaluate" /\ last.outcome = "ok"
    /\ last.ref = "fresh" /\ last.entry = <<>>
    /\ Len(containers) = 2
    /\ \A c \in Ids : containers[c].showOn = FnIsNull /\ containers[c].visible

\* C2: every member of a group has a showOn whose key is the group's key and
\* holds the very predicate object of the group, so containers with the same
\* key hold the same predicate object
C2_MembersShareKeyAndPredicate ==
    /\ \A g \in 1..Len(showGroups) : \A c \in Range(showGroups[g].containers) :
          /\ KeyOf(containers[c].showOn) = showGroups[g].key
          /\ containers[c].shouldShow = showGroups[g].shouldShow
    /\ \A c, d \in Ids :
          KeyOf(containers[c].showOn) = KeyOf(containers[d].showOn) =>
              containers[c].shouldShow.id = containers[d].shouldShow.id

\* C2 (case): two containers share a group, by two distinct function objects
\* of the same source text or by two equal booleans
C2_Witness ==
    /\ Len(containers) = 2 /\ Len(showGroups) = 1
    /\ \/ containers[1].showOn = FnIsNull /\ containers[2].showOn = FnIsImg
       \/ containers[1].showOn = Bool(TRUE) /\ containers[2].showOn = Bool(TRUE)

C3_Registry(groups, cs) ==
    /\ \A c \in 1..Len(cs) :
          Cardinality({ p \in (1..Len(groups)) \X (1..MaxContainers + 1) :
                          /\ p[2] <= Len(groups[p[1]].containers)
                          /\ groups[p[1]].containers[p[2]] = c }) = 1
    /\ \A g, h \in 1..Len(groups) : groups[g].key = groups[h].key => g = h

\* C3: every constructed container is listed by exactly one group, exactly
\* once; no two groups have the same key; a construction adds exactly one
\* group when its key is new and none otherwise
C3_OneGroupPerContainerAndKey ==
    [][ /\ C3_Registry(showGroups', containers')
        /\ Len(containers') = Len(containers) + 1 =>
              Len(showGroups') =
                  Len(showGroups) +
                  (IF KeyOf(containers'[Len(containers')].showOn) \in Keys(showGroups)
                   THEN 0 ELSE 1)
      ]_vars

\* C3 (case): a second container was registered under the key of the first
C3_Witness ==
    /\ last.op = "construct" /\ last.outcome = "ok"
    /\ Len(containers) = 2 /\ Len(showGroups) = 1
    /\ showGroups[1].containers = <<1, 2>>

\* C4: generateKeyForShowOnValue gives a key for a showOn of every kind, and
\* showOn values of different kinds get different keys
C4_KeyDefinedForEveryKind ==
    last.op = "construct" =>
        /\ ~generateKeyForShowOnValue(last.showOn).threw
        /\ \A v \in { containers[c].showOn : c \in Ids } \cup {Bool(TRUE), Str("true")} :
              jQueryType(v) # jQueryType(last.showOn) =>
                  KeyOf(v) # KeyOf(last.showOn)

\* C5: one call makes at most |elements| + 1 predicate calls for each group
\* and at most K * (|elements| + 1) in all, K the number of groups
C5_TestsBoundedByGroups ==
    last.op = "evaluate" =>
        /\ \A i \in 1..Len(last.tests) : last.tests[i].n <= Len(last.entry) + 1
        /\ TotalTests(last.tests) <= Len(showGroups) * (Len(last.entry) + 1)

\* C5 (case): two containers in one group, and the group's predicate was
\* called for every element and the sentinel
C5_Witness ==
    /\ last.op = "evaluate" /\ last.outcome = "ok"
    /\ Len(containers) = 2 /\ Len(showGroups) = 1
    /\ Len(last.entry) >= 1
    /\ TotalTests(last.tests) = Len(last.entry) + 1

Visibility(cs) == [c \in 1..Len(cs) |-> cs[c].visible]

\* C6: a call that directly follows a call with the same elements sequence
\* leaves every container's visible flag as the first call left it
C6_SecondEvaluationSameVisibility ==
    [][ (last'.op = "evaluate" /\ last'.again) =>
            Visibility(containers') = Visibility(containers) ]_vars

\* C6 (case): the array [ div ] was passed a second time, and the call showed
\* one container and hid another
C6_Witness ==
    /\ last.op = "evaluate" /\ last.again /\ last.outcome = "ok"
    /\ last.ref = "held" /\ last.entry = <<"div", NoElement>>
    /\ \E c, d \in Ids : containers[c].visible /\ ~containers[d].visible

\* C7: the tested sequence is the caller's elements with the sentinel added
\* once, so it holds exactly one sentinel, and it is [ sentinel ] when the
\* caller's elements are empty or absent
C7_ExactlyOneSentinel ==
    last.op = "evaluate" =>
        /\ last.elements = Append(last.entry, NoElement)
        /\ Sentinels(last.elements) = 1
        /\ (last.ref = "absent" \/ last.entry = <<>>) => last.elements = <<NoElement>>

\* C8: every construction completes, whatever the kind of showOn, and leaves
\* the new container in a group with a predicate
C8_ConstructionNeverFails ==
    last.op = "construct" =>
        /\ last.outcome = "ok"
        /\ \E c \in Ids : containers[c].showOn = last.showOn /\ GroupsOf(c) # {}

\* C9: a container constructed with showOn undefined is registered with the
\* constant-true predicate, and every evaluation leaves it visible
C9_UndefinedAlwaysShown ==
    /\ (last.op = "construct" /\ last.showOn = Undefined) =>
          /\ last.outcome = "ok"
          /\ \E c \in Ids : /\ containers[c].showOn = Undefined
                            /\ containers[c].shouldShow.kind = "undefined"
    /\ last.op = "evaluate" =>
          \A c \in Ids : containers[c].showOn = Undefined => containers[c].visible

RecognizedKinds == {"undefined", "boolean", "string", "function"}

\* C10: a container whose showOn is of an unrecognized kind is constructed
\* with the constant-false predicate, and every completed evaluation leaves
\* it hidden
C10_UnrecognizedKindHidden ==
    /\ (last.op = "construct" /\ jQueryType(last.showOn) \notin RecognizedKinds) =>
          /\ last.outcome = "ok"
          /\ \E c \in Ids : /\ containers[c].showOn = last.showOn
                            /\ containers[c].shouldShow.kind = "default"
    /\ (last.op = "evaluate" /\ last.outcome = "ok") =>
          \A c \in Ids :
              jQueryType(containers[c].showOn) \notin RecognizedKinds =>
                  ~containers[c].visible

\* C11: after every showContainersForElements call a container with a boolean
\* showOn b has visible = b, whatever the elements, and two containers with
\* showOn true are members of the same group
C11_BooleanDecidesVisibility ==
    /\ last.op = "evaluate" =>
          \A c \in Ids :
              jQueryType(containers[c].showOn) = "boolean" =>
                  containers[c].visible = containers[c].showOn.b
    /\ \A c, d \in Ids :
          (containers[c].showOn = Bool(TRUE) /\ containers[d].showOn = Bool(TRUE)) =>
              GroupsOf(c) = GroupsOf(d) /\ Cardinality(GroupsOf(c)) = 1

\* C12: after showContainersForElements( elements ) a container with a string
\* showOn s is visible exactly when some element of elements other than the
\* sentinel matches s
C12_StringDecidesVisibility ==
    last.op = "evaluate" =>
        \A c \in Ids :
            jQueryType(containers[c].showOn) = "string" =>
                containers[c].visible =
                    (\E e \in Range(last.entry) \ {NoElement} :
                        jQueryIs(e, containers[c].showOn.s))

AllRendered == \A c \in Ids : containers[c].element # NoElement

\* some array of elements whose evaluation, made now, leaves container c with
\* visible = v
CanBecome(c, v) ==
    \E a \in FreshArrays :
        LET r == GroupLoop(containers, showGroups, 1, PushNull(TRUE, a))
        IN  Len(r.cs) <= MaxContainers /\ r.cs[c].visible = v

\* a new container is Shown, and the visible flag of a container changes only
\* in a showContainersForElements call
ShownUntilEvaluated ==
    /\ Len(containers') > Len(containers) =>
          \A c \in (Len(containers) + 1)..Len(containers') : containers'[c].visible
    /\ \A c \in Ids :
          containers'[c].visible # containers[c].visible => last'.op = "evaluate"

Varies(p) == ~Apply(p, NoElement) /\ \E e \in ElementHandles : Apply(p, e)

Called == { last.calls[i].container : i \in 1..Len(last.calls) }

\* C14: a container that was unregistered is in no group's member list, and
\* no later evaluation calls its show() or hide(), while the other members of
\* its group are still evaluated
C14_DiscardedNotToggled ==
    last.op = "evaluate" =>
        \A c \in Ids :
            IF containers[c].discarded
            THEN GroupsOf(c) = {} /\ c \notin Called
            ELSE last.outcome = "ok" => c \in Called

\* the predicate coerced from the showOn of container c alone
OwnPredicate(c) == coerceShowOnToPredicate(containers[c].showOn, 0)

\* C15: the visibility a completed evaluation gives a container is the one its
\* own coerced showOn gives when tested against the elements and the sentinel,
\* and a container registered with a function decides with that function
C15_GroupedAsIndividually ==
    (last.op = "evaluate" /\ last.outcome = "ok") =>
        \A c \in Ids :
            /\ containers[c].visible =
                  (\E e \in Range(last.elements) : Apply(OwnPredicate(c), e))
            /\ jQueryType(containers[c].showOn) = "function" =>
                  containers[c].shouldShow.id = containers[c].showOn.id

\* the predicate of the group whose tests the record t reports
TestedPredicate(t) == showGroups[Lookup(showGroups, t.key)].shouldShow

\* C16: for each group the predicate is called in one walk down the tested
\* sequence that ends with the first call that returns true: no call follows
\* a true result, and the group is shown exactly when the walk ended so
C16_WalkStopsAtFirstTrue ==
    last.op = "evaluate" =>
        \A i \in 1..Len(last.tests) :
            LET t == last.tests[i]
                p == TestedPredicate(t)
                m == Len(t.tested)
            IN  /\ t.n = m
                /\ \A k \in 1..m : t.tested[k] = Len(last.elements) - k + 1
                /\ \A k \in 1..(m - 1) : ~Apply(p, last.elements[t.tested[k]])
                /\ t.show = (m > 0 /\ Apply(p, last.elements[t.tested[m]]))
                /\ ~t.show => m = Len(last.elements)
                /\ \A j \in 1..Len(last.calls) :
                      last.calls[j].container \in
                          Range(showGroups[Lookup(showGroups, t.key)].containers)
                      => last.calls[j].action = ActionFor(t.show)

\* C16 (case): one group's walk stopped before the end of the sequence and
\* the group was shown, another group's walk went through and it was hidden
C16_Witness ==
    /\ last.op = "evaluate" /\ last.outcome = "ok"
    /\ \E i, j \in 1..Len(last.tests) :
          /\ last.tests[i].show /\ last.tests[i].n < Len(last.elements)
          /\ ~last.tests[j].show /\ last.tests[j].n = Len(last.elements)

\* the positions in the calls of the last evaluation that are calls on c
CallsOn(c) == { i \in 1..Len(last.calls) : last.calls[i].container = c }

\* C17: in one call every member of every group gets exactly one call, show()
\* or hide(), all members of a group get the same one, and the member's
\* visible flag is TRUE after show() and FALSE after hide()
C17_OneCallPerMember ==
    last.op = "evaluate" =>
        \A g \in 1..Len(showGroups) :
            \E action \in {"show", "hide"} :
                \A c \in Range(showGroups[g].containers) :
                    /\ Cardinality(CallsOn(c)) = 1
                    /\ \A i \in CallsOn(c) : last.calls[i].action = action
                    /\ containers[c].visible = (action = "show")

\* C18: every call of showContainersForElements completes, whether or not
\* the containers were rendered: no exception leaves it, every group was
\* visited once and every member had its group's decision applied
C18_EvaluationCompletes ==
    last.op = "evaluate" =>
        /\ last.outcome = "ok"
        /\ Len(last.tests) = Len(showGroups)
        /\ \A i \in 1..Len(last.tests) : last.tests[i].key = showGroups[i].key
        /\ \A c \in Ids : CallsOn(c) # {}

\* C19: nothing is registered while a showContainersForElements call runs:
\* the group index (keys, predicates, member lists) and the set of containers
\* at the end of the call are those at its start, also when a caller-supplied
\* predicate runs during the call
C19_IndexUnchangedByEvaluation ==
    [][ last'.op = "evaluate" =>
            showGroups' = showGroups /\ Len(containers') = Len(containers) ]_vars

\* C20: a member list holds its containers in the order of their registration:
\* a registration appends the new container after all earlier members and
\* never changes the earlier part of any list
C20_MembersInRegistrationOrder ==
    [][ /\ Len(showGroups') >= Len(showGroups)
        /\ \A g \in 1..Len(showGroups) :
              LET old == showGroups[g].containers
                  new == showGroups'[g].containers
              IN  /\ showGroups'[g].key = showGroups[g].key
                  /\ Len(new) >= Len(old)
                  /\ SubSeq(new, 1, Len(old)) = old
                  /\ \A k \in (Len(old) + 1)..Len(new) : new[k] > Len(containers)
        /\ \A g \in 1..Len(showGroups') :
              \A j, k \in 1..Len(showGroups'[g].containers) :
                  j < k => showGroups'[g].containers[j] < showGroups'[g].containers[k]
      ]_vars

\* C20 (case): a container was registered into a group that had a member
C20_Witness ==
    /\ last.op = "construct" /\ last.outcome = "ok"
    /\ \E g \in 1..Len(showGroups) :
          /\ Len(showGroups[g].containers) >= 2
          /\ showGroups[g].containers[Len(showGroups[g].containers)] = Len(containers)

----------------------------------------------------------------------------
(* Sidebar panels: Sidebar.expandPanel / collapsePanel, Panel.expand /     *)
(* collapse / toggle, and the completion of the height animation           *)

\* typeof v
typeOf(v) ==
    IF v.type = "null" THEN "object" ELSE v.type

\* a function the caller passes to be told that the animation is over
OnDone == Fn(201, "function () { done(this); }", "done")

\* what a caller passes as callback, as duration and as panel (an id of
\* Sidebar.panels, or an id that is not in it)
CallbackArgs == { Undefined, OnDone }
DurationArgs == { Undefined, Num(500) }
PanelArgs == PanelIds \cup { "t3" }

\* this._getPanelById( id ): this.panels[id], undefined for an unknown id
getPanelById(id) ==
    IF id \in DOMAIN panels THEN id ELSE "undefined"

\* content.stop().animate( {height: h}, 500, 'easeOutExpo', complete ): the
\* running animation is stopped without its complete function being called,
\* and the new one runs with a complete function that closes over callback
animate(p, callback) ==
    [fx EXCEPT ![p] = [running |-> TRUE, callback |-> callback,
                       ticket |-> started + 1]]

\* panel.expand( callback )
expand(p, callback) ==
    /\ fx' = animate(p, callback)
    /\ panels' = [panels EXCEPT ![p].expanded = TRUE]

\* panel.collapse( duration, callback )
collapse(p, duration, callback) ==
    /\ fx' = animate(p, callback)
    /\ panels' = [panels EXCEPT ![p].expanded = FALSE]

\* what the caller asked of panel p, and the callback the caller passed
Request(p, op, api, callback) ==
    latest' = [latest EXCEPT ![p] = [ticket |-> started + 1, op |-> op,
                                     api |-> api, callback |-> callback]]

\* sidebar.expandPanel( panel, callback )
expandPanel(panel, callback) ==
    /\ started < MaxRequests
    /\ started' = started + 1
    /\ LET p == getPanelById(panel) IN
       IF p # "undefined"
       THEN /\ expand(p, callback)
            /\ Request(p, "expand", TRUE, callback)
       ELSE UNCHANGED <<panels, fx, latest>>
    /\ UNCHANGED invoked
    /\ UNCHANGED containerVars

\* sidebar.collapsePanel( panel, duration, callback ): it calls
\* panel.collapse( callback ), so the callback arrives as collapse's duration
\* and collapse's callback is undefined
collapsePanel(panel, duration, callback) ==
    /\ started < MaxRequests
    /\ started' = started + 1
    /\ LET p == getPanelById(panel) IN
       IF p # "undefined"
       THEN /\ collapse(p, callback, Undefined)
            /\ Request(p, "collapse", TRUE, callback)
       ELSE UNCHANGED <<panels, fx, latest>>
    /\ UNCHANGED invoked
    /\ UNCHANGED containerVars

\* panel.toggle(), on a click on the panel's title
toggle(p) ==
    /\ started < MaxRequests
    /\ started' = started + 1
    /\ IF panels[p].expanded
       THEN /\ collapse(p, Undefined, Undefined)
            /\ Request(p, "collapse", FALSE, Undefined)
       ELSE /\ expand(p, Undefined)
            /\ Request(p, "expand", FALSE, Undefined)
    /\ UNCHANGED invoked
    /\ UNCHANGED containerVars

\* an invocation callback.call( that )
Invocation(callback, that, ticket) ==
    [callback |-> callback.id, receiver |-> that, ticket |-> ticket]

\* the animation on p's content reaches its end and jQuery calls its complete
\* function: if (typeof callback == 'function') callback.call( that )
complete(p) ==
    /\ fx[p].running
    /\ fx' = [fx EXCEPT ![p] = NoFx]
    /\ invoked' = IF typeOf(fx[p].callback) = "function"
                  THEN invoked \cup { Invocation(fx[p].callback, p, fx[p].ticket) }
                  ELSE invoked
    /\ UNCHANGED <<panels, latest, started>>
    /\ UNCHANGED containerVars

NextSidebar ==
    \/ \E panel \in PanelArgs : \E callback \in CallbackArgs :
          expandPanel(panel, callback)
    \/ \E panel \in PanelArgs : \E duration \in DurationArgs :
          \E callback \in CallbackArgs : collapsePanel(panel, duration, callback)
    \/ \E p \in PanelIds : toggle(p)
    \/ \E p \in PanelIds : complete(p)

\* panels are expanded, collapsed and toggled; an animation that is not
\* stopped by a later one reaches its end (jQuery's timer runs it to 500 ms)
SpecSidebar ==
    Init /\ [][NextSidebar]_vars /\ \A p \in PanelIds : WF_vars(complete(p))

\* the latest call on p is call n, made through the sidebar with a function
Awaits(p, n) ==
    /\ latest[p].ticket = n
    /\ latest[p].api
    /\ typeOf(latest[p].callback) = "function"

\* the function passed in call n on p was invoked with p as receiver
Answered(p, n) ==
    Invocation(latest[p].callback, p, n) \in invoked

\* C21: expandPanel and collapsePanel on an existing panel set panel.expanded
\* to the new state at once (true after expandPanel, false after
\* collapsePanel), and a function passed as callback is eventually invoked
\* with the panel as receiver unless a further expand or collapse of the same
\* panel is started first
C21_CallbackInvokedAndStateImmediate ==
    /\ [][ \A p \in PanelIds :
              latest'[p].ticket # latest[p].ticket /\ latest'[p].api =>
                  panels'[p].expanded = (latest'[p].op = "expand") ]_vars
    /\ \A p \in PanelIds : \A n \in 1..MaxRequests :
          Awaits(p, n) ~> (latest[p].ticket # n \/ Answered(p, n))

====
